---- MODULE Spec2Model ----
\* Model of pixiecore/cli/cli.go: the commandline front-end of Pixiecore.
\* One process invocation: CLI() tries the v1 compatibility commandline,
\* then hands over to rootCmd.Execute(), whose server subcommand resolves
\* its flags with serverFromFlags() and starts the server.
EXTENDS Integers, Sequences, FiniteSets, TLC

\* ---------------------------------------------------------------- bounds
\* Number of distinct binaries the embedding program may pre-register.
NumImages == 1
\* Number of readable files on disk; file p holds image p.
NumFiles == 2

\* ------------------------------------------------------------- constants
\* Default of --port (cli.go:75).
DefaultPort == 80

\* pixiecore.Firmware values that have a path flag.
Firmware == {"FirmwareX86PC", "FirmwareEFI32", "FirmwareEFI64"}

Images == 1..NumImages

\* Default of the three path flags: the empty string (cli.go:76-78).
\* Paths are numbered: 0 is "", 1..NumFiles are readable files, and
\* NumFiles+1 is a path that cannot be read.
EmptyPath == 0
Paths == 0..(NumFiles + 1)

\* Listen address as typed by the operator; NotGiven: flag absent.
NotGiven == "<not given>"
AddrLiterals == {"10.0.0.1", "::ffff:10.0.0.1", "::1", "localhost"}

\* Values the operator may type after --port.
PortInts == {0 - 1, 0, 9000}

\* Value a PIXIECORE_PORT environment variable may hold.
EnvPorts == {8080}

\* net.IP values are byte sequences; <<>> is the nil IP.
NilIP == <<>>
v4InV6Prefix == <<0, 0, 0, 0, 0, 0, 0, 0, 0, 0, 255, 255>>

\* net.IPv4(a, b, c, d): the 16-byte form of an IPv4 address.
IPv4(a, b, c, d) == v4InV6Prefix \o <<a, b, c, d>>

\* net.IPv4zero, the default of --listen-addr (cli.go:74).
IPv4zero == IPv4(0, 0, 0, 0)

\* net.ParseIP on the literals of the model, as pflag's IP flag calls it:
\* dotted quads and IPv4-mapped literals give the 16-byte IPv4 form, other
\* IPv6 literals their 16 bytes, anything else nil.
ParseIP(s) ==
  CASE s = "10.0.0.1" -> IPv4(10, 0, 0, 1)
    [] s = "::ffff:10.0.0.1" -> IPv4(10, 0, 0, 1)
    [] s = "::1" -> <<0, 0, 0, 0, 0, 0, 0, 0, 0, 0, 0, 0, 0, 0, 0, 1>>
    [] OTHER -> NilIP

\* net.IP.To4 accepting every address (the check of cli.go:120 lost).
To4_Any(ip) == IF ip = NilIP THEN NilIP ELSE SubSeq(ip, Len(ip) - 3, Len(ip))

\* net.IP.To4 as cli.go:120 uses it: the 4-byte form, or nil when the
\* address is not an IPv4 address.
To4(ip) ==
  IF Len(ip) = 4 THEN ip
  ELSE IF Len(ip) = 16 /\ SubSeq(ip, 1, 12) = v4InV6Prefix THEN SubSeq(ip, 13, 16)
  ELSE NilIP

\* net.IP.String as cli.go:152 uses it: dotted quad for IPv4 addresses,
\* colon-hex text otherwise. The text is kept as its form and its numbers.
IPString(ip) ==
  IF To4(ip) # NilIP THEN [form |-> "dotted", digits |-> To4(ip)]
  ELSE [form |-> "colon", digits |-> ip]

\* Zero value of Server.Address (never assigned).
NoAddress == [form |-> "empty", digits |-> <<>>]

\* ------------------------------------------------------------------ state
VARIABLES
  Ipxe,          \* the package variable Ipxe: Firmware -> image
  preRegistered, \* what the embedding program put in Ipxe before CLI()
  args,          \* the flags as typed on the commandline
  env,           \* PIXIECORE_PORT: <<>> when absent, <<v>> when set to v
  pc,            \* position of the process
  legacy,        \* result of v1compatCLI(): "none" before it has run
  router,        \* TRUE once rootCmd.Execute() has been entered
  ret,           \* <<>> or <<s>>, s the Server serverFromFlags returned
  exit,          \* the statuses passed to os.Exit, as the OS sees them
  out            \* the diagnostics printed

vars == <<Ipxe, preRegistered, args, env, pc, legacy, router, ret, exit, out>>

\* Maps from some firmwares to images.
Registries == UNION {[D -> Images] : D \in SUBSET Firmware}

\* A --port argument: absent, an integer, or text that is no integer.
PortArgs ==
  {[set |-> FALSE, ok |-> TRUE, val |-> DefaultPort]}
    \cup {[set |-> TRUE, ok |-> TRUE, val |-> n] : n \in PortInts}
    \cup {[set |-> TRUE, ok |-> FALSE, val |-> 0]}

Args ==
  [debug : BOOLEAN, timestamps : BOOLEAN,
   listenAddr : AddrLiterals \cup {NotGiven},
   port : PortArgs,
   ipxeBios : Paths, ipxeEFI32 : Paths, ipxeEFI64 : Paths]

\* Exit status as the OS reports it for os.Exit(code).
ExitStatus(code) == code % 256

\* --------------------------------------------------------- flag registry
\* pflag parsing of the commandline by rootCmd.Execute(): TRUE when every
\* typed value decodes to its flag's type (cli.go:72-78).
ParseOK(a) ==
  /\ a.port.ok
  /\ a.listenAddr # NotGiven => ParseIP(a.listenAddr) # NilIP

\* cmd.Flags().GetBool(name)
GetBool(a, name) == IF name = "debug" THEN a.debug ELSE a.timestamps

\* cmd.Flags().GetIP("listen-addr"): the typed address or the default.
GetIP(a) == IF a.listenAddr = NotGiven THEN IPv4zero ELSE ParseIP(a.listenAddr)

\* GetInt that lets the environment overlay answer for an unset flag.
GetInt_EnvFirst(a, e) == IF e # <<>> THEN e[1] ELSE IF a.port.set THEN a.port.val ELSE DefaultPort

\* cmd.Flags().GetInt("port") in environment e: the typed value, else the
\* flag's default. The flag set is never bound to viper, so the
\* environment prepared by initConfig is not consulted.
GetInt(a, e) == IF a.port.set THEN a.port.val ELSE DefaultPort

\* cmd.Flags().GetString(name) for the three path flags.
GetString(a, name) ==
  CASE name = "ipxe-bios" -> a.ipxeBios
    [] name = "ipxe-efi32" -> a.ipxeEFI32
    [] name = "ipxe-efi64" -> a.ipxeEFI64

\* ------------------------------------------------------------ file system
\* ioutil.ReadFile: file p holds image p; any other path is an error.
ReadFile(path) ==
  IF path \in 1..NumFiles THEN [err |-> FALSE, bs |-> path]
  ELSE [err |-> TRUE, bs |-> 0]

\* mustFile that returns the (nil) bytes of a failed read.
mustFile_NoExit(path) == [fatal |-> FALSE, bs |-> ReadFile(path).bs]

\* mustFile: the contents, or a fatal exit when the read fails.
mustFile(path) == [fatal |-> ReadFile(path).err, bs |-> ReadFile(path).bs]

\* ----------------------------------------------------------- validation
\* The checks of cli.go:120-125 with the port looked at first.
Validate_PortFirst(addr, httpPort) ==
  IF httpPort <= 0 THEN "HTTP port must be >0"
  ELSE IF addr # NilIP /\ To4(addr) = NilIP THEN "Listen address must be IPv4"
  ELSE ""

\* The checks of cli.go:120-125 with port 0 let through.
Validate_ZeroPort(addr, httpPort) ==
  IF addr # NilIP /\ To4(addr) = NilIP THEN "Listen address must be IPv4"
  ELSE IF httpPort < 0 THEN "HTTP port must be >0"
  ELSE ""

\* The two checks of serverFromFlags, in its order; the diagnostic of the
\* first that fails (fatalf exits there), "" when both pass.
Validate(addr, httpPort) ==
  IF addr # NilIP /\ To4(addr) = NilIP THEN "Listen address must be IPv4"
  ELSE IF httpPort <= 0 THEN "HTTP port must be >0"
  ELSE ""

\* ------------------------------------------------------- firmware merge
\* map[pixiecore.Firmware][]byte{}
EmptyMap == [fw \in {} |-> 0]

\* m[fw] = bs on a Go map.
MapSet(m, fw, bs) == (fw :> bs) @@ m

\* An assignment that reaches the package variable as well, as it would
\* if ret.Ipxe were Ipxe itself instead of a fresh map.
StoreEntry_Global(st, fw, bs) ==
  [st EXCEPT !.ret = MapSet(st.ret, fw, bs), !.global = MapSet(st.global, fw, bs)]

\* ret.Ipxe[fw] = bs (cli.go:133,136,139,142); st.ret is the map of the
\* Server under construction, st.global the package variable Ipxe.
StoreEntry(st, fw, bs) == [st EXCEPT !.ret = MapSet(st.ret, fw, bs)]

\* for fwtype, bs := range Ipxe { ret.Ipxe[fwtype] = bs }, over the keys
\* still to visit.
RECURSIVE CopyRegistry(_, _)
CopyRegistry(st, keys) ==
  IF keys = {} THEN st
  ELSE LET fw == CHOOSE k \in keys : TRUE
       IN CopyRegistry(StoreEntry(st, fw, st.global[fw]), keys \ {fw})

\* A path flag that never replaces a binary the registry already holds.
LoadFirmware_KeepRegistered(st, fw, path) ==
  IF st.fatal \/ path = EmptyPath \/ fw \in DOMAIN st.ret THEN st
  ELSE IF mustFile(path).fatal
       THEN [st EXCEPT !.fatal = TRUE, !.msg = "couldn't read file"]
       ELSE StoreEntry(st, fw, mustFile(path).bs)

\* if path != "" { ret.Ipxe[fw] = mustFile(path) }; nothing runs once a
\* fatalf has ended the process.
LoadFirmware(st, fw, path) ==
  IF st.fatal \/ path = EmptyPath THEN st
  ELSE IF mustFile(path).fatal
       THEN [st EXCEPT !.fatal = TRUE, !.msg = "couldn't read file"]
       ELSE StoreEntry(st, fw, mustFile(path).bs)

\* ------------------------------------------------------ serverFromFlags
\* serverFromFlags with flags a, environment e and registry reg: whether
\* it ended in fatalf and with which diagnostic, the Server it returned
\* (<<>> when none), and the registry it leaves behind.
serverFromFlags(a, e, reg) ==
  LET debug == GetBool(a, "debug")
      timestamps == GetBool(a, "log-timestamps")
      addr == GetIP(a)
      httpPort == GetInt(a, e)
      invalid == Validate(addr, httpPort)
      st0 == [ret |-> EmptyMap, global |-> reg, fatal |-> FALSE, msg |-> ""]
      st1 == CopyRegistry(st0, DOMAIN reg)
      st2 == LoadFirmware(st1, "FirmwareX86PC", GetString(a, "ipxe-bios"))
      st3 == LoadFirmware(st2, "FirmwareEFI32", GetString(a, "ipxe-efi32"))
      st4 == LoadFirmware(st3, "FirmwareEFI64", GetString(a, "ipxe-efi64"))
      log == IF timestamps THEN "logWithStdLog" ELSE "logWithStdFmt"
  IN IF invalid # ""
     THEN [fatal |-> TRUE, msg |-> invalid, server |-> <<>>, global |-> reg]
     ELSE IF st4.fatal
     THEN [fatal |-> TRUE, msg |-> st4.msg, server |-> <<>>, global |-> st4.global]
     ELSE [fatal |-> FALSE, msg |-> "",
           server |-> <<[Ipxe |-> st4.ret,
                         Log |-> log,
                         Debug |-> IF debug THEN log ELSE "nil",
                         HTTPPort |-> httpPort,
                         Address |-> IF addr # NilIP THEN IPString(addr) ELSE NoAddress]>>,
           global |-> st4.global]

\* ---------------------------------------------------------------- steps
\* CLI() going on to the command router whatever v1compatCLI() said.
AfterCompat_FallThrough(handled) == "execute"

\* if v1compatCLI() { return }: where CLI() goes after the legacy detector.
AfterCompat(handled) == IF handled THEN "returned" ELSE "execute"

\* fatalf: print the diagnostic and os.Exit(1).
fatalf(msg) ==
  /\ out' = Append(out, msg)
  /\ exit' = Append(exit, ExitStatus(1))
  /\ pc' = "exited"

\* Statuses the legacy commandline may exit with by itself.
LegacyExitCodes == {0, 1}

Init ==
  /\ Ipxe \in Registries
  /\ preRegistered = Ipxe
  /\ args \in Args
  /\ env \in {<<>>} \cup {<<v>> : v \in EnvPorts}
  /\ pc = "start"
  /\ legacy = "none"
  /\ router = FALSE
  /\ ret = <<>>
  /\ exit = <<>>
  /\ out = <<>>

\* v1compatCLI() returns to CLI(): true when it handled the invocation.
V1CompatReturns ==
  /\ pc = "start"
  /\ \E handled \in BOOLEAN :
       /\ legacy' = IF handled THEN "handled" ELSE "nothandled"
       /\ pc' = AfterCompat(handled)
  /\ UNCHANGED <<Ipxe, preRegistered, args, env, router, ret, exit, out>>

\* v1compatCLI() handles the invocation and exits the process itself.
V1CompatExits ==
  /\ pc = "start"
  /\ \E code \in LegacyExitCodes : exit' = Append(exit, ExitStatus(code))
  /\ legacy' = "handled"
  /\ pc' = "exited"
  /\ UNCHANGED <<Ipxe, preRegistered, args, env, router, ret, out>>

\* rootCmd.Execute() parses the commandline; a value that does not decode
\* makes it return an error, which CLI() prints before os.Exit(-1).
Execute ==
  /\ pc = "execute"
  /\ router' = TRUE
  /\ IF ParseOK(args)
     THEN /\ pc' = "run"
          /\ UNCHANGED <<exit, out>>
     ELSE /\ out' = Append(out, "invalid argument")
          /\ exit' = Append(exit, ExitStatus(0 - 1))
          /\ pc' = "exited"
  /\ UNCHANGED <<Ipxe, preRegistered, args, env, legacy, ret>>

\* The server subcommand calls serverFromFlags(cmd).
ResolveConfig ==
  /\ pc = "run"
  /\ LET r == serverFromFlags(args, env, Ipxe)
     IN /\ Ipxe' = r.global
        /\ IF r.fatal
           THEN fatalf(r.msg) /\ UNCHANGED ret
           ELSE /\ ret' = r.server
                /\ pc' = "serving"
                /\ UNCHANGED <<exit, out>>
  /\ UNCHANGED <<preRegistered, args, env, legacy, router>>

\* The subcommand finishes: rootCmd.Execute() returns its error, if any,
\* and CLI() exits with -1 or 0 (cli.go:43-47).
CommandDone ==
  /\ pc = "serving"
  /\ \E failed \in BOOLEAN :
       IF failed
       THEN /\ out' = Append(out, "command failed")
            /\ exit' = Append(exit, ExitStatus(0 - 1))
       ELSE /\ exit' = Append(exit, ExitStatus(0))
            /\ UNCHANGED out
  /\ pc' = "exited"
  /\ UNCHANGED <<Ipxe, preRegistered, args, env, legacy, router, ret>>

Next == V1CompatReturns \/ V1CompatExits \/ Execute \/ ResolveConfig \/ CommandDone

Spec == Init /\ [][Next]_vars

\* ================================================================ claims
\* serverFromFlags has been called and has ended (returned or fatalf).
Called == router /\ ParseOK(args) /\ pc \in {"serving", "exited"}

\* The path flag of a firmware type.
PathOf(fw) ==
  CASE fw = "FirmwareX86PC" -> args.ipxeBios
    [] fw = "FirmwareEFI32" -> args.ipxeEFI32
    [] fw = "FirmwareEFI64" -> args.ipxeEFI64

\* Literals in IPv6 notation, those among them that are not IPv4-mapped,
\* and literals that are no IP address at all.
IPv6Literals == {"::ffff:10.0.0.1", "::1"}
PlainIPv6Literals == {"::1"}
InvalidLiterals == {"localhost"}

\* C1: whenever serverFromFlags is called with a port <= 0 it ends in
\* fatalf with exit status 1 and returns no Server; every Server it
\* returns has HTTPPort > 0.
C1_PortPositive ==
  /\ ret # <<>> => ret[1].HTTPPort > 0
  /\ (Called /\ args.port.set /\ args.port.val <= 0) =>
       (ret = <<>> /\ pc = "exited" /\ exit = <<1>>)

C1_Witness ==
  /\ Called /\ args.port.set /\ args.port.val <= 0
  /\ args.listenAddr = "10.0.0.1"
  /\ exit = <<1>> /\ out = <<"HTTP port must be >0">>

\* C2 as stated: every listen address written in IPv6 notation or not an
\* IP literal ends the run with a non-zero status and no Server; every
\* Server returned has a dotted-quad IPv4 Address.
C2_Original ==
  /\ (router /\ args.listenAddr \in IPv6Literals \cup InvalidLiterals) =>
       /\ ret = <<>>
       /\ pc \in {"run", "exited"}
       /\ pc = "exited" => (Len(exit) = 1 /\ exit[1] # 0)
  /\ ret # <<>> =>
       (ret[1].Address.form = "dotted" /\ Len(ret[1].Address.digits) = 4)

\* C2 amended: every listen address that is an IPv6 address other than an
\* IPv4-mapped one, or that is not an IP literal, ends the run with a
\* non-zero status and no Server; every Server returned has a dotted-quad
\* IPv4 Address (an IPv4-mapped literal is accepted as the IPv4 address
\* it maps).
C2_Amended ==
  /\ (router /\ args.listenAddr \in PlainIPv6Literals \cup InvalidLiterals) =>
       /\ ret = <<>>
       /\ pc \in {"run", "exited"}
       /\ pc = "exited" => (Len(exit) = 1 /\ exit[1] # 0)
  /\ ret # <<>> =>
       (ret[1].Address.form = "dotted" /\ Len(ret[1].Address.digits) = 4)
  /\ (ret # <<>> /\ args.listenAddr = NotGiven) =>
       ret[1].Address.digits = <<0, 0, 0, 0>>

C2_Witness ==
  /\ Called /\ args.listenAddr = "::1"
  /\ ret = <<>> /\ exit = <<1>> /\ out = <<"Listen address must be IPv4">>

\* C3 as stated: with --port unset and PIXIECORE_PORT present, the
\* HTTPPort of the Server produced is the environment's value.
C3_EnvWhenUnset ==
  (ret # <<>> /\ ~args.port.set /\ env # <<>>) => ret[1].HTTPPort = env[1]

\* C4: with --port set explicitly, the HTTPPort of the Server produced is
\* the flag's value, whatever PIXIECORE_PORT holds.
C4_ExplicitFlagWins ==
  (ret # <<>> /\ args.port.set) => ret[1].HTTPPort = args.port.val

C4_Witness ==
  /\ ret # <<>> /\ args.port.set /\ args.port.val = 9000 /\ env = <<8080>>
  /\ ret[1].HTTPPort = 9000

\* C5: in a Server that serverFromFlags returns, the entry of each
\* firmware type is the contents of the flag's file when its path flag is
\* set, and the pre-registered binary (or no entry, when none was
\* pre-registered) when it is not.
C5_FirmwareMerge ==
  ret # <<>> =>
    \A fw \in Firmware :
      IF PathOf(fw) # EmptyPath
      THEN fw \in DOMAIN ret[1].Ipxe /\ ret[1].Ipxe[fw] = ReadFile(PathOf(fw)).bs
      ELSE /\ fw \in DOMAIN ret[1].Ipxe <=> fw \in DOMAIN preRegistered
           /\ fw \in DOMAIN preRegistered => ret[1].Ipxe[fw] = preRegistered[fw]

C5_Witness ==
  /\ ret # <<>>
  /\ \E fw \in DOMAIN preRegistered :
       PathOf(fw) # EmptyPath /\ ret[1].Ipxe[fw] # preRegistered[fw]
  /\ \E fw \in DOMAIN preRegistered : PathOf(fw) = EmptyPath
  /\ \E fw \in Firmware : fw \notin DOMAIN ret[1].Ipxe

\* C6: whenever serverFromFlags is called with a path flag naming a file
\* that cannot be read, the process ends with exit status 1 and no
\* Server is returned, whatever the other path flags name.
C6_UnreadableIsFatal ==
  (Called /\ \E fw \in Firmware : PathOf(fw) # EmptyPath /\ ReadFile(PathOf(fw)).err) =>
    (ret = <<>> /\ pc = "exited" /\ exit = <<1>>)

C6_Witness ==
  /\ Called
  /\ args.ipxeBios # EmptyPath /\ ~ReadFile(args.ipxeBios).err
  /\ args.ipxeEFI32 # EmptyPath /\ ReadFile(args.ipxeEFI32).err
  /\ ret = <<>> /\ exit = <<1>> /\ out = <<"couldn't read file">>

\* C7: the command router is entered only after the legacy detector has
\* run and reported the invocation as not handled; a handled invocation
\* never reaches the router, flag resolution or validation.
C7_LegacyExcludesRouter ==
  /\ router => legacy = "nothandled"
  /\ legacy = "handled" => (~router /\ ret = <<>> /\ pc \in {"returned", "exited"})
  /\ legacy = "none" => pc = "start"

C7_Witness == legacy = "handled" /\ pc = "returned" /\ ~router

\* C8 as stated: when the port is <= 0 and the listen address is not
\* IPv4, the one failure reported is the port's.
C8_PortReportedFirst ==
  (Called /\ args.port.set /\ args.port.val <= 0
     /\ args.listenAddr \in PlainIPv6Literals) =>
    out = <<"HTTP port must be >0">>

\* C8 amended: validation checks the listen address before the port, and
\* the first failure wins: when the port is <= 0 and the listen address
\* is not IPv4, the one failure reported is the address's.
C8_AddressReportedFirst ==
  (Called /\ args.port.set /\ args.port.val <= 0
     /\ args.listenAddr \in PlainIPv6Literals) =>
    (out = <<"Listen address must be IPv4">> /\ exit = <<1>> /\ ret = <<>>)

C8_Witness ==
  /\ Called /\ args.port.set /\ args.port.val <= 0 /\ args.listenAddr = "::1"
  /\ out = <<"Listen address must be IPv4">>

\* C9 as stated: CLI never returns to its caller; every run that has
\* finished has exited to the OS, with status 0 after a successful
\* command, 1 after a fatal error, non-zero after a failed command.
C9_AlwaysExits ==
  /\ pc # "returned"
  /\ pc = "exited" => Len(exit) = 1
  /\ (pc = "exited" /\ router /\ ret = <<>>) => exit[1] # 0

====
